---- MODULE Spec2Model ----
(***************************************************************************)
(* A model of inkwell's static analyzer (cli/src/analyzer.rs) and of its   *)
(* instrumentor (cli/src/instrumentor.rs).                                 *)
(*                                                                         *)
(* Both passes decide everything by substring matching over the text that  *)
(* quote!(..).to_string() produces for a syntax node.  That text is the    *)
(* token stream printed with one space between tokens ("self . balances .  *)
(* get (a)"), so the model keeps strings as strings, renders every         *)
(* expression the way the token printer does and implements contains /     *)
(* replace / matches / the regular expression of extract_storage_variable  *)
(* character by character.                                                 *)
(***************************************************************************)
EXTENDS Integers, Sequences, FiniteSets, TLC

-----------------------------------------------------------------------------
(* Strings: the std::str operations the two passes use.                    *)

Char(s, i) == SubSeq(s, i, i)

StartsAt(s, p, i) ==
    /\ i >= 1
    /\ i + Len(p) - 1 <= Len(s)
    /\ (Len(p) = 0 \/ SubSeq(s, i, i + Len(p) - 1) = p)

\* str::contains
Contains(s, p) == Len(p) = 0 \/ \E i \in 1..(Len(s) - Len(p) + 1) : StartsAt(s, p, i)

\* str::starts_with
StartsWith(s, p) == StartsAt(s, p, 1)

\* str::ends_with
EndsWith(s, p) == Len(p) <= Len(s) /\ StartsAt(s, p, Len(s) - Len(p) + 1)

\* the smallest i >= from at which p starts in s, 0 when there is none
FindFrom(s, p, from) ==
    LET hits == {i \in from..(Len(s) - Len(p) + 1) : StartsAt(s, p, i)}
    IN IF hits = {} THEN 0 ELSE CHOOSE i \in hits : \A j \in hits : i <= j

RECURSIVE ReplaceAt(_, _, _, _, _)
ReplaceAt(s, from, to, i, hit) ==
    IF hit = 0 THEN SubSeq(s, i, Len(s))
    ELSE SubSeq(s, i, hit - 1) \o to
         \o ReplaceAt(s, from, to, hit + Len(from), FindFrom(s, from, hit + Len(from)))

\* str::replace(from, to), from non-empty: left to right, non-overlapping
Replace(s, from, to) == ReplaceAt(s, from, to, 1, FindFrom(s, from, 1))

RECURSIVE CountAt(_, _, _)
CountAt(s, p, hit) ==
    IF hit = 0 THEN 0 ELSE 1 + CountAt(s, p, FindFrom(s, p, hit + Len(p)))

\* str::matches(p).count(): the non-overlapping occurrences
CountMatches(s, p) == CountAt(s, p, FindFrom(s, p, 1))

\* str::trim_start, str::trim_end, str::trim (the model's texts hold no
\* whitespace other than the space)
TrimStart(s) ==
    LET first == CHOOSE i \in 1..(Len(s) + 1) :
                     /\ i > Len(s) \/ Char(s, i) # " "
                     /\ \A j \in 1..(i - 1) : Char(s, j) = " "
    IN SubSeq(s, first, Len(s))

TrimEnd(s) ==
    LET last == CHOOSE i \in 0..Len(s) :
                    /\ i = 0 \/ Char(s, i) # " "
                    /\ \A j \in (i + 1)..Len(s) : Char(s, j) = " "
    IN SubSeq(s, 1, last)

Trim(s) == TrimEnd(TrimStart(s))

Lower == {"a", "b", "c", "d", "e", "f", "g", "h", "i", "j", "k", "l", "m",
          "n", "o", "p", "q", "r", "s", "t", "u", "v", "w", "x", "y", "z"}
Upper == {"A", "B", "C", "D", "E", "F", "G", "H", "I", "J", "K", "L", "M",
          "N", "O", "P", "Q", "R", "S", "T", "U", "V", "W", "X", "Y", "Z"}
Digit == {"0", "1", "2", "3", "4", "5", "6", "7", "8", "9"}
\* [a-zA-Z_] and [a-zA-Z0-9_]
IdentStart == Lower \cup Upper \cup {"_"}
IdentChar == IdentStart \cup Digit

\* the end (exclusive) of the longest run of [a-zA-Z0-9_] starting at i
IdentEnd(s, i) ==
    CHOOSE e \in i..(Len(s) + 1) :
        /\ e > Len(s) \/ Char(s, e) \notin IdentChar
        /\ \A j \in i..(e - 1) : Char(s, j) \in IdentChar

-----------------------------------------------------------------------------
(* Syntax trees.  An expression node is [k, segs, sub]:                     *)
(*   path   segs = the path's segments                 sub = << >>          *)
(*   lit    segs = <<the literal's text>>              sub = << >>          *)
(*   field  segs = <<member>>                          sub = <<base>>       *)
(*   mcall  segs = <<method>>                 sub = <<receiver, args...>>   *)
(*   call   segs = << >>                      sub = <<function, args...>>   *)
(*   bin    segs = <<operator>>                        sub = <<left, right>>*)
(*   ref    segs = << >>                               sub = <<operand>>    *)
(*   block  segs = << >>                      sub = the block's statements  *)
(* A statement is [k, attrs, pat, e, src]: k is "local" (a let binding pat  *)
(* with the initializer e), "expr" (the expression e and a semicolon),      *)
(* "tail" (the expression e without one) or "macro" (e is a literal holding *)
(* the macro statement's token text); attrs are its attributes and src is   *)
(* its line of the source file ("" for a statement the instrumentor made).  *)

Path(segs) == [k |-> "path", segs |-> segs, sub |-> << >>]
Var(x) == Path(<<x>>)
Lit(x) == [k |-> "lit", segs |-> <<x>>, sub |-> << >>]
Field(base, member) == [k |-> "field", segs |-> <<member>>, sub |-> <<base>>]
MCall(recv, method, args) == [k |-> "mcall", segs |-> <<method>>, sub |-> <<recv>> \o args]
Call(f, args) == [k |-> "call", segs |-> << >>, sub |-> <<f>> \o args]
Bin(l, op, r) == [k |-> "bin", segs |-> <<op>>, sub |-> <<l, r>>]
Ref(e) == [k |-> "ref", segs |-> << >>, sub |-> <<e>>]
BlockExpr(stmts) == [k |-> "block", segs |-> << >>, sub |-> stmts]

Local(pat, e, src) == [k |-> "local", attrs |-> << >>, pat |-> pat, e |-> e, src |-> src]
ExprStmt(e, src) == [k |-> "expr", attrs |-> << >>, pat |-> "", e |-> e, src |-> src]
TailExpr(e) == [k |-> "tail", attrs |-> << >>, pat |-> "", e |-> e, src |-> ""]
MacroStmt(tokens, src) ==
    [k |-> "macro", attrs |-> << >>, pat |-> "", e |-> Lit(tokens), src |-> src]
WithAttr(attr, stmt) ==
    [k |-> stmt.k, attrs |-> <<attr>> \o stmt.attrs, pat |-> stmt.pat, e |-> stmt.e,
     src |-> stmt.src]

\* the two attributes inject_probe writes
CfgOn == "cfg (feature = \"ink-profiling\")"
CfgOff == "cfg (not (feature = \"ink-profiling\"))"

RECURSIVE Join(_, _)
Join(strs, sep) ==
    IF Len(strs) = 0 THEN ""
    ELSE IF Len(strs) = 1 THEN strs[1]
    ELSE strs[1] \o sep \o Join(Tail(strs), sep)

\* the tokens of a statement's attributes, each followed by a space
AttrsStr(attrs) == Join([i \in 1..Len(attrs) |-> "# [" \o attrs[i] \o "] "], "")

\* quote!(#expr).to_string(): the tokens of the node, one space between two
\* tokens, none inside the parentheses of a group, "::" and "+=" one token.
\* The attributes of an expression statement belong to its expression.
RECURSIVE ToStr(_)
RECURSIVE StmtStr(_)
StmtStr(stmt) ==
    AttrsStr(stmt.attrs)
    \o (CASE stmt.k = "local" -> "let " \o stmt.pat \o " = " \o ToStr(stmt.e) \o " ;"
           [] stmt.k = "expr" -> ToStr(stmt.e) \o " ;"
           [] OTHER -> ToStr(stmt.e))

ToStr(e) ==
    LET args(from) == Join([i \in 1..(Len(e.sub) - from + 1) |-> ToStr(e.sub[i + from - 1])], " , ")
    IN CASE e.k = "block" ->
                IF Len(e.sub) = 0 THEN "{ }"
                ELSE "{ " \o Join([i \in 1..Len(e.sub) |-> StmtStr(e.sub[i])], " ") \o " }"
         [] e.k = "ref" -> "& " \o ToStr(e.sub[1])
         [] e.k = "path" -> Join(e.segs, " :: ")
         [] e.k = "lit" -> e.segs[1]
         [] e.k = "field" -> ToStr(e.sub[1]) \o " . " \o e.segs[1]
         [] e.k = "mcall" -> ToStr(e.sub[1]) \o " . " \o e.segs[1] \o " (" \o args(2) \o ")"
         [] e.k = "call" -> ToStr(e.sub[1]) \o " (" \o args(2) \o ")"
         [] e.k = "bin" -> ToStr(e.sub[1]) \o " " \o e.segs[1] \o " " \o ToStr(e.sub[2])

-----------------------------------------------------------------------------
(* The cost model's constants.                                             *)

StorageReadInk == 1200000
StorageWriteInk == 1500000
EmbeddedReadWriteInk == 2400000
MsgSenderInk == 300000
MsgValueInk == 350000
BlockInk == 250000
EvmContextDefaultInk == 200000
EventInk == 350000
ExternalCallInk == 2500000
CryptoInk == 500000
AssignmentInk == 80000
DefaultInk == 50000
RequireCheckInk == 50000
StorageOpPenalty == 2400000
HotspotThreshold == 1000000
GasDivisor == 10000
DryNibNestedCharge == 4800000
DryNibCharge == 2400000
DryNibFairCost == 1200000
DryNibInkTrigger == 3000000
DryNibHighOver == 2000000
CacheSavingPerRead == 13200000
CacheSavingPercent == 92

-----------------------------------------------------------------------------
(* analyzer.rs: the entity extractor and the string predicates.            *)

\* the keywords alone
ReservedWords_keywords == {"mut", "ref", "as", "let", "where", "self"}

ReservedWords == {"mut", "ref", "as", "let", "where", "self", "get", "insert"}

\* the leftmost match of self\.([a-zA-Z_][a-zA-Z0-9_]*)\. at or after i:
\* its captured name, "" when there is no match
RECURSIVE re_outer(_, _)
re_outer(s, i) ==
    LET at == FindFrom(s, "self.", i)
        b == at + 5
        e == IdentEnd(s, b)
    IN IF at = 0 THEN ""
       ELSE IF b <= Len(s) /\ Char(s, b) \in IdentStart /\ e <= Len(s) /\ Char(s, e) = "."
            THEN SubSeq(s, b, e - 1)
            ELSE re_outer(s, at + 1)

extract_storage_variable(code) ==
    LET code_normalized == Replace(Trim(code), " ", "")
        name == re_outer(code_normalized, 1)
    IN IF name # "" /\ name \notin ReservedWords THEN name ELSE "unknown"

extract_storage_entity(code) == extract_storage_variable(code)

\* Option<(String, bool)> as [some, field, nested]
NoRead == [some |-> FALSE, field |-> "", nested |-> FALSE]

detect_storage_read(expr) ==
    LET normalized == Replace(expr, " ", "")
        get_count == CountMatches(normalized, ".get(")
        field == extract_storage_variable(expr)
    IN IF ~Contains(normalized, "self.") THEN NoRead
       ELSE IF get_count > 0 /\ field # "" /\ field # "unknown"
            THEN [some |-> TRUE, field |-> field, nested |-> get_count >= 2]
       ELSE IF StartsWith(normalized, "self.") /\ ~Contains(normalized, "(")
               /\ field # "" /\ field # "unknown"
            THEN [some |-> TRUE, field |-> field, nested |-> FALSE]
       ELSE NoRead

\* Option<&str>: whether it is Some
detect_storage_write(expr) ==
    LET normalized == Replace(expr, " ", "")
    IN /\ Contains(normalized, "self.")
       /\ (Contains(normalized, ".set(") \/ Contains(normalized, ".insert("))

\* the decimal text of a count, for format!("nested_map_get (x{})", count)
RECURSIVE Decimal(_)
Decimal(n) ==
    LET d == <<"0", "1", "2", "3", "4", "5", "6", "7", "8", "9">>
    IN IF n < 10 THEN d[n + 1] ELSE Decimal(n \div 10) \o d[(n % 10) + 1]

detect_operation_name(expr_str, category) ==
    LET normalized == Replace(expr_str, " ", "")
        count == CountMatches(normalized, ".get(")
    IN CASE category = "storage_read" ->
              IF Contains(normalized, ".get(") \/ Contains(normalized, ".getter(")
              THEN IF count >= 2 THEN "nested_map_get (x" \o Decimal(count) \o ")"
                   ELSE "map::get"
              ELSE IF StartsWith(normalized, "self.") /\ ~Contains(normalized, "(")
                   THEN "storage::load"
                   ELSE "storage_read (direct)"
         [] category = "storage_write" ->
              IF Contains(normalized, ".insert(") \/ Contains(normalized, ".set(")
              THEN IF Contains(normalized, ".get(") THEN "map::upsert" ELSE "map::insert"
              ELSE "storage::store"
         [] OTHER -> category

estimate_ink_cost(operation, category) ==
    CASE category = "storage_read" -> StorageReadInk
      [] category = "storage_write" ->
           IF Contains(operation, "embedded_read") THEN EmbeddedReadWriteInk
           ELSE StorageWriteInk
      [] category = "evm_context" ->
           IF Contains(operation, "msg::sender") THEN MsgSenderInk
           ELSE IF Contains(operation, "msg::value") THEN MsgValueInk
           ELSE IF Contains(operation, "block::") THEN BlockInk
           ELSE EvmContextDefaultInk
      [] category = "event" -> EventInk
      [] category = "external_call" -> ExternalCallInk
      [] category = "crypto" -> CryptoInk
      [] category = "assignment" -> AssignmentInk
      [] OTHER -> DefaultInk

\* types.rs Operation, without the constant column and with the percentage
\* filled in by analyze_function
Op(line, code, operation, entity, ink, category, severity) ==
    [line |-> line, code |-> code, operation |-> operation, entity |-> entity,
     ink |-> ink, category |-> category, severity |-> severity]

build_operation(line, code, category, severity) ==
    LET operation_name == detect_operation_name(code, category)
    IN Op(line, code, operation_name, extract_storage_entity(code),
          estimate_ink_cost(operation_name, category), category, severity)

path_contains_storage(path) ==
    \E i \in 1..Len(path.segs) :
        \/ Contains(path.segs[i], "storage")
        \/ Contains(path.segs[i], "balances")
        \/ Contains(path.segs[i], "map")
        \/ Contains(path.segs[i], "vec")

path_starts_with_self(path) == Len(path.segs) > 0 /\ path.segs[1] = "self"

RECURSIVE looks_like_storage_write(_)
looks_like_storage_write(expr) ==
    CASE expr.k = "path" -> path_contains_storage(expr)
      [] expr.k = "field" -> looks_like_storage_write(expr.sub[1])
      [] OTHER -> FALSE

RECURSIVE looks_like_storage_access(_)
looks_like_storage_access(expr) ==
    CASE expr.k = "path" -> path_starts_with_self(expr)
      [] expr.k = "field" -> looks_like_storage_access(expr.sub[1])
      [] OTHER -> FALSE

-----------------------------------------------------------------------------
(* analyzer.rs: the expression classifier.                                 *)

RECURSIVE ConcatAll(_)
ConcatAll(seqs) == IF Len(seqs) = 0 THEN << >> ELSE Head(seqs) \o ConcatAll(Tail(seqs))

RECURSIVE analyze_expr(_, _)
RECURSIVE analyze_method_call(_, _)

\* 1. map.get / nested: read is detect_storage_read's answer
StorageReadOps(line, expr_str, read) ==
    IF read.some
    THEN << Op(line, expr_str, IF read.nested THEN "nested_map_get" ELSE "map::get",
               read.field, 1200000, "storage_read", "high"),
            Op(line, expr_str, "storage::load",
               read.field, 1200000, "storage_read", "high"),
            Op(line, "self." \o read.field, "storage_field_access",
               read.field, 1200000, "storage_read", "high") >>
    ELSE << >>

\* 2. writes, with a possible read before the write: embedded is
\* expr_str.contains(".get("), asked of the spaced token text as it is
StorageWriteOps(line, expr_str, is_write, entity, embedded) ==
    IF is_write
    THEN << Op(line, expr_str, IF embedded THEN "map::upsert" ELSE "map::insert",
               entity, 1500000, "storage_write", "high") >>
         \o (IF embedded
             THEN << Op(line, expr_str, "storage::load",
                        entity, 1200000, "storage_read", "high"),
                     Op(line, "self." \o entity, "storage_field_access",
                        entity, 1200000, "storage_read", "high") >>
             ELSE << >>)
    ELSE << >>

\* 3. other calls; and the operation a compound assignment or a field access
\* adds after its operands
BuiltOps(wanted, line, code, category, severity) ==
    IF wanted THEN << build_operation(line, code, category, severity) >> ELSE << >>

analyze_expr(expr, line) ==
    LET expr_str == Trim(ToStr(expr))
    IN StorageReadOps(line, expr_str, detect_storage_read(expr_str))
       \o StorageWriteOps(line, expr_str, detect_storage_write(expr_str),
                          extract_storage_entity(expr_str), Contains(expr_str, ".get("))
       \o BuiltOps(Contains(expr_str, "msg::sender()"), line, expr_str, "evm_context", "low")
       \o BuiltOps(Contains(expr_str, "evm::log("), line, expr_str, "event", "medium")
       \o (CASE expr.k = "mcall" -> analyze_method_call(expr, line)
             [] expr.k \in {"bin", "field"} ->
                  ConcatAll([i \in 1..Len(expr.sub) |-> analyze_expr(expr.sub[i], line)])
                  \o BuiltOps(IF expr.k = "bin"
                              THEN expr.segs[1] \in {"+=", "-="}
                                   /\ looks_like_storage_write(expr.sub[1])
                              ELSE looks_like_storage_access(expr.sub[1]),
                              line, ToStr(expr),
                              IF expr.k = "bin" THEN "storage_write" ELSE "storage_read",
                              "high")
             [] OTHER -> << >>)

\* the two operations of a .get / .getter call: receiver_str is the text of
\* quote!(#m.receiver), which prints the whole call and then ". receiver"
GetOps(line, field, is_nested) ==
    << Op(line,
          IF is_nested THEN field \o ".get(...).get(...)" ELSE field \o ".get(...)",
          IF is_nested THEN "nested_map_get" ELSE "map::get",
          field, 1200000, "storage_read", "high"),
       Op(line, "self." \o field, "storage_field_access",
          field, 1200000, "storage_read", "high") >>

analyze_method_call(m, line) ==
    LET receiver_str == Replace(ToStr(m) \o " . receiver", " ", "")
    IN ConcatAll([i \in 1..(Len(m.sub) + 1) |->
          IF i = 1 THEN analyze_expr(m.sub[1], line)
          ELSE IF i = 2
               THEN IF m.segs[1] \in {"get", "getter"}
                    THEN GetOps(line, extract_storage_variable(receiver_str),
                                Contains(receiver_str, ".get("))
                    ELSE << >>
               ELSE analyze_expr(m.sub[i - 1], line)])

-----------------------------------------------------------------------------
(* analyzer.rs: statements and their lines.                                *)

\* the first of the lines hits, 0 when there is none
FirstLine(hits) ==
    IF hits = {} THEN 0 ELSE CHOOSE i \in hits : \A j \in hits : i <= j

Max(a, b) == IF a >= b THEN a ELSE b
Min(a, b) == IF a <= b THEN a ELSE b

find_exact_line(lines, search_text, start_line) ==
    LET norm_search == Trim(search_text)
        search_start == Max(Max(start_line - 30, 0), 1) - 1
        search_end == Min(start_line + 60, Len(lines))
        Similar(line) ==
            LET norm_line == Trim(line)
            IN Contains(norm_line, norm_search) \/ Contains(norm_search, norm_line)
        by_text == FirstLine({i \in (search_start + 1)..search_end : Similar(lines[i])})
        field == extract_storage_variable(search_text)
        Access(line) ==
            Contains(line, field) /\ (Contains(line, ".get(") \/ Contains(line, ".set("))
        by_field == FirstLine({i \in (search_start + 1)..search_end : Access(lines[i])})
    IN IF norm_search = "" THEN start_line
       ELSE IF by_text # 0 THEN by_text
       ELSE IF field # "unknown" /\ by_field # 0 THEN by_field
       ELSE start_line

\* Stmt::Macro: the require_check operation of a require! / assert!
MacroOps(s, fn_start_line) ==
    IF Contains(s, "require!") \/ Contains(s, "assert!")
    THEN << Op(fn_start_line + 1, s, "require_check", "n/a", RequireCheckInk,
               "control_flow", "low") >>
    ELSE << >>

\* Stmt::Local searches the line of quote!(#(init.expr)), which is no
\* interpolation and prints the tokens "# (init . expr)"; Stmt::Expr searches
\* the line of the expression's text.
analyze_statement(lines, stmt, fn_start_line) ==
    IF stmt.k = "macro" THEN MacroOps(ToStr(stmt.e), fn_start_line)
    ELSE analyze_expr(stmt.e,
             find_exact_line(lines,
                             IF stmt.k = "local" THEN "# (init . expr)" ELSE ToStr(stmt.e),
                             fn_start_line))

-----------------------------------------------------------------------------
(* analyzer.rs: the function analyzer and the two detectors.               *)

IsStorageOp(op) == op.category = "storage_read" \/ op.category = "storage_write"

RECURSIVE compute_total_ink(_)
compute_total_ink(ops) ==
    IF Len(ops) = 0 THEN 0
    ELSE Head(ops).ink + (IF IsStorageOp(Head(ops)) THEN StorageOpPenalty ELSE 0)
         + compute_total_ink(Tail(ops))

\* operations.iter().map(|op| op.ink).sum()
RECURSIVE SumInk(_)
SumInk(ops) == IF Len(ops) = 0 THEN 0 ELSE Head(ops).ink + SumInk(Tail(ops))

\* The f64 (part / whole) * 100.0, kept exact as the fraction part / whole;
\* 0.0 when the whole is 0.
Percent(part, whole) ==
    IF whole > 0 THEN [num |-> part, den |-> whole] ELSE [num |-> 0, den |-> 1]

\* analyze_function's second pass over the operations
FillPercentages(ops, total_ink) ==
    [i \in 1..Len(ops) |->
        [line |-> ops[i].line, code |-> ops[i].code, operation |-> ops[i].operation,
         entity |-> ops[i].entity, ink |-> ops[i].ink, category |-> ops[i].category,
         severity |-> ops[i].severity, percentage |-> Percent(ops[i].ink, total_ink)]]

\* slice::sort_by / sort_by_key are stable.  An insertion sort over the pairs
\* [key, val], ascending by key: x goes behind every element whose key is not
\* greater than its own.
RECURSIVE InsertByKey(_, _)
InsertByKey(sorted, x) ==
    IF Len(sorted) = 0 THEN <<x>>
    ELSE IF sorted[Len(sorted)].key <= x.key THEN Append(sorted, x)
    ELSE Append(InsertByKey(SubSeq(sorted, 1, Len(sorted) - 1), x), sorted[Len(sorted)])

RECURSIVE SortPairs(_)
SortPairs(pairs) ==
    IF Len(pairs) = 0 THEN << >>
    ELSE InsertByKey(SortPairs(SubSeq(pairs, 1, Len(pairs) - 1)), pairs[Len(pairs)])

\* seq sorted by keys[i], the key of seq[i]
SortStable(seq, keys) ==
    LET sorted == SortPairs([i \in 1..Len(seq) |-> [key |-> keys[i], val |-> seq[i]]])
    IN [i \in 1..Len(seq) |-> sorted[i].val]

calculate_categories(operations) ==
    LET cats == {operations[i].category : i \in 1..Len(operations)}
        total_ink == SumInk(operations)
        inks(c) == SelectSeq(operations, LAMBDA op : op.category = c)
    IN [c \in cats |->
          [count |-> Len(inks(c)),
           total_ink |-> SumInk(inks(c)),
           percentage |-> Percent(SumInk(inks(c)), total_ink),
           avg_per_op |-> IF Len(inks(c)) > 0 THEN SumInk(inks(c)) \div Len(inks(c)) ELSE 0]]

\* The optimizations, as a set: the code pushes them in the iteration order of a
\* HashMap.  The description and current_code texts are left out.
\* every storage read, whatever its entity
IsKnownRead_any(op) == op.category = "storage_read"

\* the operations that enter read_map
IsKnownRead(op) == op.category = "storage_read" /\ op.entity # "unknown"

detect_optimizations(operations) ==
    LET reads == SelectSeq(operations, IsKnownRead)
        vars == {reads[i].entity : i \in 1..Len(reads)}
        lines(var) == SelectSeq(reads, LAMBDA op : op.entity = var)
        unique_lines(var) == {lines(var)[i].line : i \in 1..Len(lines(var))}
        first(var) == CHOOSE l \in unique_lines(var) : \A m \in unique_lines(var) : l <= m
    IN {[id |-> "cache_" \o var,
         line |-> first(var),
         severity |-> "medium",
         title |-> "Cache repeated storage read: self." \o var,
         suggested_code |-> "let cached_" \o var \o " = self." \o var
                            \o ".get(...);\n// Use cached_" \o var \o " instead",
         estimated_savings_ink |-> CacheSavingPerRead * (Cardinality(unique_lines(var)) - 1),
         estimated_savings_percentage |-> CacheSavingPercent,
         confidence |-> "high"] : var \in {v \in vars : Len(lines(v)) > 2 /\ v # ""}}

Monus(a, b) == IF a >= b THEN a - b ELSE 0

dry_nib_bug(op) ==
    LET get_count == CountMatches(op.code, ".get(")
        charged == IF get_count >= 2 THEN DryNibNestedCharge ELSE DryNibCharge
        over == Monus(charged, DryNibFairCost)
    IN [line |-> op.line,
        operation |-> op.operation,
        category |-> "storage_read",
        ink_charged_estimate |-> charged,
        actual_return_size |-> 32,
        buffer_allocated |-> 64,
        expected_fair_cost |-> DryNibFairCost,
        overcharge_estimate |-> over,
        severity |-> IF over > DryNibHighOver THEN "high" ELSE "medium",
        mitigation |-> IF get_count >= 2
                       THEN "Cache outer mapping result before inner .get()"
                       ELSE "Cache storage value in local variable"]

\* the suspicion by name and ink alone
suspected_overcharge_by_name(op) ==
    \/ Contains(op.code, "balances")
    \/ Contains(op.code, "allowance")
    \/ op.ink >= DryNibInkTrigger

suspected_overcharge(op) ==
    \/ CountMatches(op.code, ".get(") >= 2
    \/ Contains(op.code, "balances")
    \/ Contains(op.code, "allowance")
    \/ op.ink >= DryNibInkTrigger

detect_dry_nib_bugs(ops) ==
    LET suspects == SelectSeq(ops,
                        LAMBDA op : op.category = "storage_read" /\ suspected_overcharge(op))
        bugs == [i \in 1..Len(suspects) |-> dry_nib_bug(suspects[i])]
    IN SortStable(bugs, [i \in 1..Len(bugs) |-> bugs[i].line])

\* a filter that lets every operation through
IsHotspot_every(op) == op.ink > 0

IsHotspot(op) == op.ink > HotspotThreshold

Hotspots(operations) ==
    LET hot == SelectSeq(operations, IsHotspot)
        \* sort_by(|a, b| b.ink.cmp(&a.ink)): descending by ink
        sorted == SortStable(hot, [i \in 1..Len(hot) |-> 0 - hot[i].ink])
    IN [i \in 1..Len(sorted) |->
          [line |-> sorted[i].line, ink |-> sorted[i].ink,
           operation |-> sorted[i].operation, rank |-> i]]

\* no name at all
NoLifecycleNames == {}

LifecycleNames == {"required_slots", "new", "load", "load_mut", "entrypoint",
                   "user_entrypoint", "mark_used"}

\* analyze_function's lifecycle skip alone, whatever the target is
SkipsFunction_any_target(target, name) ==
    name \in LifecycleNames \/ StartsWith(name, "__stylus_")

\* whether analyze_function returns before analysing: target is "" for None
SkipsFunction(target, name) ==
    \/ (target # "" /\ target # name)
    \/ name \in LifecycleNames
    \/ StartsWith(name, "__stylus_")

\* the FunctionAnalysis analyze_function builds from the collected operations
\* (its signature text left out)
FunctionAnalysisFrom(name, fn_start_line, operations, total_ink) ==
    [name |-> name,
     start_line |-> fn_start_line,
     total_ink |-> total_ink,
     gas_equivalent |-> total_ink \div GasDivisor,
     operations |-> FillPercentages(operations, total_ink),
     categories |-> calculate_categories(operations),
     optimizations |-> detect_optimizations(operations),
     hotspots |-> Hotspots(operations),
     dry_nib_bugs |-> detect_dry_nib_bugs(operations)]

WithTotal(name, fn_start_line, operations) ==
    FunctionAnalysisFrom(name, fn_start_line, operations, compute_total_ink(operations))

FunctionAnalysisOf(lines, name, body, fn_start_line) ==
    WithTotal(name, fn_start_line,
              ConcatAll([i \in 1..Len(body) |->
                            analyze_statement(lines, body[i], fn_start_line)]))

\* a map whose insert keeps the entry it holds
analyze_function_keeping(functions, target, lines, name, body, fn_start_line) ==
    IF SkipsFunction(target, name) \/ name \in DOMAIN functions THEN functions
    ELSE [n \in (DOMAIN functions) \cup {name} |->
             IF n = name THEN FunctionAnalysisOf(lines, name, body, fn_start_line)
             ELSE functions[n]]

\* functions is the HashMap<String, FunctionAnalysis>: insert replaces
analyze_function(functions, target, lines, name, body, fn_start_line) ==
    IF SkipsFunction(target, name) THEN functions
    ELSE [n \in (DOMAIN functions) \cup {name} |->
             IF n = name THEN FunctionAnalysisOf(lines, name, body, fn_start_line)
             ELSE functions[n]]

-----------------------------------------------------------------------------
(* The analysed file.  An item is [k, name, attrs, fns]: a "const" with its *)
(* name, or an "impl" with its attributes and its methods; a method is      *)
(* [name, public, receiver, body].                                          *)

Const(name) == [k |-> "const", name |-> name, attrs |-> << >>, fns |-> << >>]
Impl(attrs, fns) == [k |-> "impl", name |-> "", attrs |-> attrs, fns |-> fns]
Fn(name, public, receiver, body) ==
    [name |-> name, public |-> public, receiver |-> receiver, body |-> body]

\* the text of the file, one line per attribute, header, statement and brace
FnLines(f) ==
    << "    " \o (IF f.public THEN "pub " ELSE "") \o "fn " \o f.name \o "("
       \o (IF f.receiver THEN "&mut self" ELSE "") \o ") {" >>
    \o [i \in 1..Len(f.body) |-> "        " \o f.body[i].src]
    \o << "    }" >>

ItemLines(item) ==
    IF item.k = "const" THEN << "pub const " \o item.name \o ": u32 = 1;" >>
    ELSE [i \in 1..Len(item.attrs) |-> "#[" \o item.attrs[i] \o "]"]
         \o << "impl Token {" >>
         \o ConcatAll([i \in 1..Len(item.fns) |-> FnLines(item.fns[i])])
         \o << "}" >>

SourceLines(f) == ConcatAll([i \in 1..Len(f) |-> ItemLines(f[i])])

\* the function name a line declares, "" when it declares none
DeclaredFn(line) ==
    LET trimmed == Trim(line)
        start == IF StartsWith(trimmed, "pub fn ") THEN 7 ELSE 3
        rest == SubSeq(trimmed, start + 1, Len(trimmed))
        end == FindFrom(rest, "(", 1)
    IN IF (StartsWith(trimmed, "pub fn ") \/ StartsWith(trimmed, "fn ")) /\ end # 0
       THEN Trim(SubSeq(rest, 1, end - 1))
       ELSE ""

\* HashMap<function_name, 1-based line>: a later declaration replaces an earlier
find_function_lines(lines) ==
    LET names == {DeclaredFn(lines[i]) : i \in 1..Len(lines)} \ {""}
    IN [n \in names |->
          CHOOSE i \in 1..Len(lines) :
              /\ DeclaredFn(lines[i]) = n
              /\ \A j \in 1..Len(lines) : DeclaredFn(lines[j]) = n => j <= i]

-----------------------------------------------------------------------------
(* analyzer.rs: the visitor over the file's items.                         *)

IsRouterName(n) == n \in {"route", "user_entrypoint", "dispatch"}

\* whether a method of the impl is a router
HasRouterFn(node) == \E i \in 1..Len(node.fns) : IsRouterName(node.fns[i].name)

HasAttr(node, a) == \E i \in 1..Len(node.attrs) : node.attrs[i] = a

has_external_attr(node) == HasAttr(node, "external") \/ HasAttr(node, "public")

likely_abi_method(f) ==
    /\ f.name \notin (LifecycleNames \cup {"route", "dispatch"})
    /\ ~StartsWith(f.name, "__stylus_")
    /\ f.public /\ f.receiver /\ ~StartsWith(f.name, "_")

is_probably_sol_style(node, sel_count, router) ==
    \/ sel_count >= 2
    \/ router
    \/ HasAttr(node, "stylus_assert_overrides")
    \/ HasRouterFn(node)

should_analyze(node, sel_count, router) ==
    \/ has_external_attr(node)
    \/ (\E i \in 1..Len(node.fns) : likely_abi_method(node.fns[i]))
    \/ is_probably_sol_style(node, sel_count, router)

\* the methods visit_item_impl passes over without calling analyze_function
SkippedMethod(name) ==
    name \in ({"route", "dispatch"} \cup LifecycleNames) \/ StartsWith(name, "__")

\* the loop over node.items, from method i on
RECURSIVE AnalyzeMethods(_, _, _, _, _)
AnalyzeMethods(functions, target, lines, fns, i) ==
    IF i > Len(fns) THEN functions
    ELSE LET name == fns[i].name
             fl == find_function_lines(lines)
             start_line == IF name \in DOMAIN fl THEN fl[name] ELSE 1
             next == IF SkippedMethod(name) THEN functions
                     ELSE analyze_function(functions, target, lines, name,
                                           fns[i].body, start_line)
         IN AnalyzeMethods(next, target, lines, fns, i + 1)

IsSelectorName(name) == StartsWith(name, "SELECTOR_") \/ EndsWith(name, "_SELECTOR")

-----------------------------------------------------------------------------
(* The inputs of the analyzer.                                             *)

Self(member) == Field(Var("self"), member)

GetCounter == Local("c", MCall(Self("counter"), "get", << >>),
                    "let c = self.counter.get();")
GetBalance == Local("bal", MCall(Self("balances"), "get", <<Var("a")>>),
                    "let bal = self.balances.get(a);")
InsertBalance == ExprStmt(MCall(Self("balances"), "insert", <<Var("a"), Var("amount")>>),
                          "self.balances.insert(a, amount);")
UpsertBalance ==
    ExprStmt(MCall(Self("balances"), "insert",
                   <<Var("to"),
                     Bin(MCall(Self("balances"), "get", <<Var("to")>>), "+", Var("amount"))>>),
             "self.balances.insert(to, self.balances.get(to) + amount);")
Sender == Local("s", Call(Path(<<"msg", "sender">>), << >>), "let s = msg::sender();")
\* the macro's tokens print as "require ! (..)": s.contains("require!") finds
\* the name only inside the message's string literal
Require == MacroStmt("require ! (ok , \"require! failed\") ;",
                     "require!(ok, \"require! failed\");")

Keccak == Local("h", Call(Var("keccak256"), <<Var("data")>>), "let h = keccak256(data);")

StmtCatalog ==
    {GetCounter, GetBalance, InsertBalance, UpsertBalance, Sender, Require, Keccak}

MaxStmts == 3

SeqsUpTo(S, n) == UNION {[1..k -> S] : k \in 0..n}

Bodies == SeqsUpTo(StmtCatalog, MaxStmts)

\* one #[external] impl with the one entry point transfer
BodyFiles == {<< Impl(<<"external">>, << Fn("transfer", TRUE, TRUE, b) >>) >> : b \in Bodies}

ItemCatalog ==
    { Const("SELECTOR_TRANSFER"),
      Impl(<< >>, << Fn("helper", FALSE, FALSE, <<GetCounter>>),
                     Fn("__stylus_entry", TRUE, TRUE, <<GetCounter>>) >>),
      Impl(<< >>, << Fn("credit", FALSE, TRUE, <<InsertBalance, Sender>>) >>),
      Impl(<<"external">>, << Fn("refresh", FALSE, TRUE, <<GetCounter>>) >>),
      Impl(<<"public">>, << Fn("transfer", TRUE, TRUE, <<GetCounter, Sender>>) >>),
      Impl(<<"external">>, << Fn("transfer", TRUE, TRUE, <<InsertBalance>>),
                              Fn("approve", TRUE, TRUE, <<InsertBalance, Require>>),
                              Fn("new", TRUE, FALSE, <<GetBalance>>) >>) }

\* an impl without a marker between, before and behind two selector constants
SelectorFiles ==
    LET first == Const("SELECTOR_TRANSFER")
        second == Const("APPROVE_SELECTOR")
        block == Impl(<< >>, << Fn("helper", FALSE, FALSE, <<GetCounter>>),
                                Fn("__stylus_entry", TRUE, TRUE, <<GetCounter>>) >>)
    IN {<<first, second, block>>, <<first, block, second>>, <<block, first, second>>}

StructFiles ==
    {<<a>> : a \in ItemCatalog} \cup {<<a, b>> : a \in ItemCatalog, b \in ItemCatalog}
    \cup SelectorFiles

Targets == {"", "transfer", "new"}

\* file_path_rel, the label of the file
FileLabels == {"token.rs", "src/lib.rs"}

-----------------------------------------------------------------------------
(* instrumentor.rs: the classification of a statement by the text of its   *)
(* expression.                                                             *)

\* the three replacements both classifiers make
Normalize(expr_str) ==
    Replace(Replace(Replace(expr_str, " . ", "."), ". ", "."), " (", "(")

StorageText(normalized) ==
    /\ Contains(normalized, "self.")
    /\ \/ Contains(normalized, ".get(")
       \/ Contains(normalized, ".insert(")
       \/ Contains(normalized, ".set(")
       \/ (Contains(normalized, "self.") /\ ~Contains(normalized, "("))

is_storage_operation(expr_str) == StorageText(Normalize(expr_str))

\* asked of the spaced token text as it is
is_expensive_operation(expr_str) ==
    \/ Contains(expr_str, "msg::sender()")
    \/ Contains(expr_str, "msg::value()")
    \/ Contains(expr_str, "evm::log(")
    \/ Contains(expr_str, "block::")
    \/ Contains(expr_str, ".call(")
    \/ Contains(expr_str, "Call::new")
    \/ Contains(expr_str, "keccak256")
    \/ Contains(expr_str, "sha256")

\* Option<&'static str>, "" for None
OperationOfText(normalized) ==
    IF Contains(normalized, ".get(") \/ Contains(normalized, ".at(") THEN "storage_read"
    ELSE IF Contains(normalized, ".insert(") \/ Contains(normalized, ".set(")
    THEN "storage_write"
    ELSE IF Contains(normalized, "evm::log(") THEN "event_emit"
    ELSE IF Contains(normalized, "msg::sender()") THEN "msg_sender"
    ELSE IF Contains(normalized, "msg::value()") THEN "msg_value"
    ELSE IF Contains(normalized, "block::") THEN "block_info"
    ELSE ""

classify_operation(expr_str) == OperationOfText(Normalize(expr_str))

\* the text visit_block_mut classifies: quote!(#expr) of a let's initializer,
\* or of the statement's expression, whose attributes are the statement's
ClassifiedText(stmt) ==
    IF stmt.k = "local" THEN ToStr(stmt.e) ELSE AttrsStr(stmt.attrs) \o ToStr(stmt.e)

-----------------------------------------------------------------------------
(* instrumentor.rs: the probes.                                            *)

\* an id whose counter does not move
next_probe_id_stuck(probe_counter) ==
    [id |-> probe_counter, probe_counter |-> probe_counter]

\* returns the id and the counter after it; the counter is a u32 that the
\* recursion of visit_block_mut cannot bring near its width
next_probe_id(probe_counter) ==
    [id |-> probe_counter, probe_counter |-> probe_counter + 1]

\* #probe_id, a u32, prints as a suffixed literal
ProbeIdLit(probe_id) == Lit(Decimal(probe_id) \o "u32")

InkProfiling(f) == Path(<<"__ink_profiling", f>>)

SomeLit(operation_type) == Call(Var("Some"), <<Lit("\"" \o operation_type \o "\"")>>)

probe_before(probe_id) ==
    WithAttr(CfgOn, Local("__ink_before", Call(InkProfiling("probe_before"),
                                                <<ProbeIdLit(probe_id)>>), ""))

probe_after(probe_id, operation_type) ==
    WithAttr(CfgOn,
             ExprStmt(Call(InkProfiling("probe_after"),
                           <<ProbeIdLit(probe_id), Var("__ink_before"),
                             SomeLit(operation_type)>>), ""))

probe_after_with_size(probe_id, operation_type) ==
    WithAttr(CfgOn,
        ExprStmt(BlockExpr(<<
            Local("__size", Call(Path(<<"std", "mem", "size_of_val">>),
                                 <<Ref(Var("__result"))>>), ""),
            ExprStmt(Call(InkProfiling("probe_after_with_size"),
                          <<ProbeIdLit(probe_id), Var("__ink_before"), Var("__size"),
                            SomeLit(operation_type)>>), ""),
            TailExpr(Var("__result")) >>), ""))

\* a rewriting that leaves the statement out
inject_probe_without_statement(stmt, operation_type, probe_id) ==
    << probe_before(probe_id), probe_after(probe_id, operation_type) >>

\* the statements that take the place of stmt
inject_probe(stmt, operation_type, probe_id) ==
    IF Contains(operation_type, "storage_read")
    THEN << probe_before(probe_id),
            WithAttr(CfgOn, Local("__result", BlockExpr(<<stmt>>), "")),
            WithAttr(CfgOff, stmt),
            probe_after_with_size(probe_id, operation_type) >>
    ELSE << probe_before(probe_id),
            stmt,
            probe_after(probe_id, operation_type) >>

InstrumentedOperation(probe_id, operation_type) ==
    [probe_id |-> probe_id, operation_type |-> operation_type, line |-> 0]

-----------------------------------------------------------------------------
(* instrumentor.rs: visit_block_mut's loop.  st is [new_stmts,              *)
(* probe_counter, instrumented_operations].                                 *)

Instrumented(st, stmt, operation_type, next) ==
    [new_stmts |-> st.new_stmts \o inject_probe(stmt, operation_type, next.id),
     probe_counter |-> next.probe_counter,
     instrumented_operations |->
         Append(st.instrumented_operations,
                InstrumentedOperation(next.id, operation_type))]

Classified(st, stmt, should_instrument, operation_type) ==
    IF should_instrument /\ operation_type # ""
    THEN Instrumented(st, stmt, operation_type, next_probe_id(st.probe_counter))
    ELSE [st EXCEPT !.new_stmts = Append(@, stmt)]

RewriteStmt(st, stmt, expr_str) ==
    Classified(st, stmt,
               /\ stmt.k \in {"local", "expr", "tail"}
               /\ (is_storage_operation(expr_str) \/ is_expensive_operation(expr_str)),
               classify_operation(expr_str))

RECURSIVE RewriteStmts(_, _, _)
RewriteStmts(stmts, i, st) ==
    IF i > Len(stmts) THEN st
    ELSE RewriteStmts(stmts, i + 1, RewriteStmt(st, stmts[i], ClassifiedText(stmts[i])))

\* the block at path below stmts: each index of path is a statement whose
\* expression is the block entered
RECURSIVE StmtsAt(_, _)
StmtsAt(stmts, path) ==
    IF Len(path) = 0 THEN stmts ELSE StmtsAt(stmts[Head(path)].e.sub, Tail(path))

RECURSIVE SetStmtsAt(_, _, _)
SetStmtsAt(stmts, path, new) ==
    IF Len(path) = 0 THEN new
    ELSE [stmts EXCEPT ![Head(path)].e.sub = SetStmtsAt(@, Tail(path), new)]

\* a call of visit_block_mut that is still to be made: on the block at path
\* below the body of method fn of item item, as the depth-th nested call
Frame(item, fn, path, depth) == [item |-> item, fn |-> fn, path |-> path, depth |-> depth]

\* syn's walk over a block: the calls on the blocks its statements hold, in
\* the order of the statements
NestedFrames(fr, stmts) ==
    LET holds == SelectSeq([k \in 1..Len(stmts) |-> k], LAMBDA k : stmts[k].e.k = "block")
    IN [j \in 1..Len(holds) |-> Frame(fr.item, fr.fn, fr.path \o <<holds[j]>>, fr.depth + 1)]

StackLimit == 4

-----------------------------------------------------------------------------
(* instrumentor.rs: the runtime module generate_instrumented_code appends   *)
(* to the instrumented source.  INK_TRACKER is a Mutex<Option<InkTracker>>: *)
(* [some, probe_data, dry_nib_detections, start_ink], with some = FALSE for *)
(* None.  An Option<&str> is "" for None; an Option<usize> is << >> for     *)
(* None and <<n>> for Some(n).                                              *)

\* Mutex::new(None)
None == [some |-> FALSE, probe_data |-> << >>, dry_nib_detections |-> << >>, start_ink |-> 0]

\* what init assigns to the tracker, whatever it held: prior is not kept
Reinitialized_keeping(prior, start_ink) ==
    [some |-> TRUE, probe_data |-> prior.probe_data,
     dry_nib_detections |-> prior.dry_nib_detections, start_ink |-> start_ink]

Reinitialized(prior, start_ink) ==
    [some |-> TRUE, probe_data |-> << >>, dry_nib_detections |-> << >>,
     start_ink |-> start_ink]

\* Mutex::lock returns once no thread holds the mutex; owner is 0 then
can_lock_always(owner) == TRUE

can_lock(owner) == owner = 0

ProbeData(probe_id, ink_before, ink_after, count, return_data_size, operation_type) ==
    [probe_id |-> probe_id, ink_before |-> ink_before, ink_after |-> ink_after,
     count |-> count, return_data_size |-> return_data_size,
     operation_type |-> operation_type]

DryNibBug(probe_id, operation, ink_charged, actual_return_size, expected_overhead) ==
    [probe_id |-> probe_id, operation |-> operation, ink_charged |-> ink_charged,
     actual_return_size |-> actual_return_size, expected_overhead |-> expected_overhead,
     overcharge_amount |-> ink_charged - expected_overhead]

check_dry_nib(detections, probe_id, operation, ink_charged) ==
    LET expected_base ==
            IF Contains(operation, "storage_read") THEN 650000
            ELSE IF Contains(operation, "storage_write") THEN 900000
            ELSE IF Contains(operation, "msg_sender") THEN 80000
            ELSE 50000
        tolerance == 200000
    IN IF ink_charged > expected_base + tolerance
       THEN Append(detections, DryNibBug(probe_id, operation, ink_charged, 0, expected_base))
       ELSE detections

check_dry_nib_with_size(detections, probe_id, operation, ink_charged, actual_size) ==
    LET base_cost == IF Contains(operation, "storage_read") THEN 650000 ELSE 900000
        fair_variable == actual_size * 30
        expected_overhead == base_cost + fair_variable
        tolerance == Max(250000, expected_overhead \div 4)
    IN IF ink_charged > expected_overhead + tolerance
       THEN Append(detections,
                   DryNibBug(probe_id, operation, ink_charged, actual_size, expected_overhead))
       ELSE detections

\* the entry of the probe map a record call leaves: found is << >> when the
\* map held no entry for the id, and the entry it held otherwise
and_modify_or_insert(found, c) ==
    IF Len(found) = 0
    THEN ProbeData(c.probe_id, c.ink_before, c.ink_after, 1,
                   IF c.with_size THEN <<c.return_size>> ELSE << >>, c.operation_type)
    ELSE [found[1] EXCEPT !.ink_after = c.ink_after,
                          !.count = @ + 1,
                          !.return_data_size = IF c.with_size THEN <<c.return_size>> ELSE @]

\* the detections a record call leaves
Checked(detections, c) ==
    LET ink_consumed == Monus(c.ink_before, c.ink_after)
        op_type == c.operation_type
    IN IF op_type = "" THEN detections
       ELSE IF c.with_size
            THEN check_dry_nib_with_size(detections, c.probe_id, op_type, ink_consumed,
                                         c.return_size)
       ELSE IF \/ Contains(op_type, "storage_read") \/ Contains(op_type, "storage_write")
               \/ Contains(op_type, "msg_") \/ Contains(op_type, "block_")
            THEN check_dry_nib(detections, c.probe_id, op_type, ink_consumed)
       ELSE detections

\* the tracker a record call leaves
Recording(t, found, c) ==
    [t EXCEPT !.probe_data =
                  [id \in (DOMAIN t.probe_data) \cup {c.probe_id} |->
                      IF id = c.probe_id THEN and_modify_or_insert(found, c)
                      ELSE t.probe_data[id]],
              !.dry_nib_detections = Checked(t.dry_nib_detections, c)]

\* what dump_report returns, without the line of the total: "{}" for None
\* is empty = TRUE
Report(t) ==
    [dumped |-> TRUE, empty |-> ~t.some, probe_data |-> t.probe_data,
     dry_nib_detections |-> t.dry_nib_detections]

\* the threads of the process, the probe ids and operation types of the
\* injected probes, and the values the ink counter is read at
Threads == {1, 2}

TrackedIds == {0, 1}

OperationTypes == {"", "storage_read"}

InkReadings == {1000000, 2500000}

InkBefore == {2000000, 3000000}

ReturnSizes == {32}

MaxCalls == 3

\* a thread outside every call of the runtime
NoCall ==
    [pc |-> "idle", with_size |-> FALSE, probe_id |-> 0, ink_before |-> 0, ink_after |-> 0,
     return_size |-> 0, operation_type |-> "", found |-> << >>]

\* the expressions analyze_expr is applied to: method calls on storage
\* fields, on locals and on method calls; assignments to fields and to
\* locals; host-context queries, as calls and inside a string literal
Receivers ==
    {Field(Var("self"), "a"), Field(Var("self"), "balances"), Var("m"),
     MCall(Field(Var("self"), "a"), "get", <<Var("x")>>),
     MCall(Var("m"), "get", <<Var("k")>>)}

Arguments ==
    {<< >>, <<Var("y")>>, <<MCall(Field(Var("self"), "b"), "get", <<Var("y")>>)>>}

AssignTargets ==
    {Field(Var("self"), "total_supply"), Field(Var("self"), "balances"), Var("total"),
     Var("balances"), Field(Var("storage_cache"), "total")}

HostQueries ==
    {Call(Path(<<"msg", "sender">>), << >>), Call(Path(<<"msg", "value">>), << >>),
     Call(Path(<<"block", "timestamp">>), << >>), Call(Path(<<"tx", "origin">>), << >>),
     Call(Var("note"), <<Lit("\"msg::sender()\"")>>),
     Call(Var("note"), <<Lit("\"msg::sender() msg::value()\"")>>),
     Call(Var("note"), <<Lit("\"block::number() msg::sender()\"")>>)}

Exprs ==
    {MCall(r, method, args) :
        r \in Receivers, method \in {"get", "getter", "insert", "len"}, args \in Arguments}
    \cup {Bin(t, op, Var("x")) : t \in AssignTargets, op \in {"+=", "-=", "+"}}
    \cup HostQueries

\* the snippets extract_storage_variable is applied to
Snippets ==
    {pre \o "self" \o dot \o name \o post :
        pre \in {"", "  ", "my", "self.0 . "},
        dot \in {".", " . "},
        name \in {"mut", "ref", "as", "let", "where", "self", "get", "insert",
                   "balances", "_x", "x1", "", "9"},
        post \in {"", ".", " . get (a)", "(self . balances . get (a))", " . insert (k , v)  "}}
    \cup {"", "balances . get (a)", "self", "let x = self ;"}

\* the message analyze_contract bails with, without the list of causes
no_entry_points_unlabelled(label, selectors) ==
    "No public/external functions detected."

no_entry_points(label, selectors) ==
    "No public/external functions detected.\nFile: " \o label
        \o "\nSelectors found: " \o Decimal(selectors) \o " (if > 0 -> likely sol! style)"

-----------------------------------------------------------------------------
(* The two passes as state machines.  analyze_contract visits the items of *)
(* the file in order and then returns.  instrument parses the source,      *)
(* visits the items in order and returns the generated text; the nested    *)
(* calls of visit_block_mut are the frames of pending, the innermost call  *)
(* that is still to be made first.                                         *)

VARIABLES
    file,              \* analyzer: the parsed source file
    target_function,   \* the filter, "" for None
    pos,               \* the item visit_file visits next
    functions,         \* ContractVisitor.functions
    has_router_impl,   \* ContractVisitor.has_router_impl
    selector_count,    \* ContractVisitor.selector_count
    result,            \* "running", then what analyze_contract returns: "ok" or "err"
    file_path_rel,     \* the label of the file
    error,             \* the message of the Err returned, "" when there is none
    source,            \* instrumentor: the source text, [parses, items]
    ast,               \* the File being rewritten
    item_pos,          \* the item visit_file_mut visits next
    pending,           \* the calls of visit_block_mut still to be made
    probe_counter,     \* Instrumentor.probe_counter
    instrumented_operations,   \* Instrumentor.instrumented_operations
    outcome,           \* "start", "running", then "ok", "err" or "stack_overflow"
    code,              \* extract_storage_variable: the snippet
    field,             \* what it returned, "" before the call
    input_expr,        \* analyze_expr: the expression
    expr_ops,          \* the operations it returned
    analysed,          \* whether it was called
    tracker,           \* runtime: INK_TRACKER
    lock_owner,        \* the thread that holds the mutex, 0 when none does
    th,                \* each thread's position in the call it makes, and its locals
    calls,             \* the number of calls made
    log,               \* the calls completed, in the order they took effect
    report             \* what the last dump_report returned

avars ==
    <<file, target_function, pos, functions, has_router_impl, selector_count, result,
      file_path_rel, error>>
ivars == <<source, ast, item_pos, pending, probe_counter, instrumented_operations, outcome>>
xvars == <<code, field, input_expr, expr_ops, analysed>>
tvars == <<tracker, lock_owner, th, calls, log, report>>
vars == <<avars, ivars, xvars, tvars>>

NoFunctions == << >>

\* a ContractVisitor that was not started
AnalyzerIdle ==
    /\ file = << >>
    /\ target_function = ""
    /\ pos = 1
    /\ functions = NoFunctions
    /\ has_router_impl = FALSE
    /\ selector_count = 0
    /\ result = "idle"
    /\ file_path_rel = ""
    /\ error = ""

\* Instrumentor::new()
new ==
    /\ ast = << >>
    /\ item_pos = 1
    /\ pending = << >>
    /\ probe_counter = 0
    /\ instrumented_operations = << >>

InstrumentorIdle ==
    /\ source = [parses |-> TRUE, items |-> << >>]
    /\ new
    /\ outcome = "idle"

ExtractorIdle == code = "" /\ field = ""

ClassifierIdle == input_expr = Lit("") /\ expr_ops = << >> /\ analysed = FALSE

NoReport == [dumped |-> FALSE, empty |-> TRUE, probe_data |-> << >>, dry_nib_detections |-> << >>]

\* the process before any call of the runtime
RuntimeLoaded ==
    /\ tracker = None
    /\ lock_owner = 0
    /\ th = [t \in Threads |-> NoCall]
    /\ calls = 0
    /\ log = << >>
    /\ report = NoReport

Init ==
    /\ \/ file \in BodyFiles /\ target_function = "" /\ file_path_rel = "token.rs"
       \/ file \in StructFiles /\ target_function \in Targets /\ file_path_rel \in FileLabels
    /\ pos = 1
    /\ functions = NoFunctions
    /\ has_router_impl = FALSE
    /\ selector_count = 0
    /\ result = "running"
    /\ error = ""
    /\ InstrumentorIdle
    /\ ExtractorIdle
    /\ ClassifierIdle
    /\ RuntimeLoaded

visit_item_impl ==
    /\ result = "running" /\ pos <= Len(file) /\ file[pos].k = "impl"
    /\ LET node == file[pos]
       IN /\ functions' =
                IF should_analyze(node, selector_count, has_router_impl)
                THEN AnalyzeMethods(functions, target_function, SourceLines(file), node.fns, 1)
                ELSE functions
          /\ has_router_impl' =
                (has_router_impl \/ HasRouterFn(node))
    /\ pos' = pos + 1
    /\ UNCHANGED <<file, target_function, selector_count, result, file_path_rel, error>>
    /\ UNCHANGED <<ivars, xvars, tvars>>

visit_item_const ==
    /\ result = "running" /\ pos <= Len(file) /\ file[pos].k = "const"
    /\ selector_count' =
          IF IsSelectorName(file[pos].name) THEN selector_count + 1 ELSE selector_count
    /\ pos' = pos + 1
    /\ UNCHANGED <<file, target_function, functions, has_router_impl, result,
                    file_path_rel, error>>
    /\ UNCHANGED <<ivars, xvars, tvars>>

\* after visit_file: Err when no function was recorded, Ok otherwise
analyze_contract ==
    /\ result = "running" /\ pos > Len(file)
    /\ IF DOMAIN functions = {}
       THEN result' = "err" /\ error' = no_entry_points(file_path_rel, selector_count)
       ELSE result' = "ok" /\ error' = error
    /\ UNCHANGED <<file, target_function, pos, functions, has_router_impl, selector_count,
                    file_path_rel>>
    /\ UNCHANGED <<ivars, xvars, tvars>>

Next == visit_item_impl \/ visit_item_const \/ analyze_contract

Spec == Init /\ [][Next]_vars

-----------------------------------------------------------------------------
(* The instrumentor.                                                       *)

Sources ==
    {[parses |-> TRUE, items |-> f] : f \in BodyFiles \cup StructFiles}
    \cup {[parses |-> FALSE, items |-> << >>]}

InitInstr ==
    /\ AnalyzerIdle
    /\ ExtractorIdle
    /\ ClassifierIdle
    /\ RuntimeLoaded
    /\ source \in Sources
    /\ new
    /\ outcome = "start"

\* instrument, up to the parse: Err when parse_file fails
parse_file ==
    /\ outcome = "start"
    /\ IF source.parses
       THEN ast' = source.items /\ outcome' = "running"
       ELSE ast' = ast /\ outcome' = "err"
    /\ UNCHANGED <<source, item_pos, pending, probe_counter, instrumented_operations>>
    /\ UNCHANGED <<avars, xvars, tvars>>

\* the calls visit_item_impl_mut makes: on every method body of an
\* #[external] impl in its own loop, and then on every method body of the
\* impl, #[external] or not, through syn's walk
visit_item_impl_mut ==
    /\ outcome = "running" /\ pending = << >>
    /\ item_pos <= Len(ast) /\ ast[item_pos].k = "impl"
    /\ LET node == ast[item_pos]
           is_external == HasAttr(node, "external")
           bodies == [f \in 1..Len(node.fns) |-> Frame(item_pos, f, << >>, 1)]
       IN pending' = (IF is_external THEN bodies ELSE << >>) \o bodies
    /\ item_pos' = item_pos + 1
    /\ UNCHANGED <<source, ast, probe_counter, instrumented_operations, outcome>>
    /\ UNCHANGED <<avars, xvars, tvars>>

\* syn's visit of an item that holds no block
visit_item_const_mut ==
    /\ outcome = "running" /\ pending = << >>
    /\ item_pos <= Len(ast) /\ ast[item_pos].k = "const"
    /\ item_pos' = item_pos + 1
    /\ UNCHANGED <<source, ast, pending, probe_counter, instrumented_operations, outcome>>
    /\ UNCHANGED <<avars, xvars, tvars>>

Rewritten(fr, body, done) ==
    /\ ast' = [ast EXCEPT ![fr.item].fns[fr.fn].body = SetStmtsAt(body, fr.path, done.new_stmts)]
    /\ probe_counter' = done.probe_counter
    /\ instrumented_operations' = done.instrumented_operations
    /\ pending' = NestedFrames(fr, done.new_stmts) \o Tail(pending)

RewriteAt(fr, body) ==
    Rewritten(fr, body,
              RewriteStmts(StmtsAt(body, fr.path), 1,
                           [new_stmts |-> << >>,
                            probe_counter |-> probe_counter,
                            instrumented_operations |-> instrumented_operations]))

\* one call of visit_block_mut: the loop over the block's statements, the
\* assignment of node.stmts, and the calls syn's walk goes on to make
visit_block_mut ==
    /\ outcome = "running" /\ pending # << >>
    /\ Head(pending).depth <= StackLimit
    /\ RewriteAt(Head(pending), ast[Head(pending).item].fns[Head(pending).fn].body)
    /\ UNCHANGED <<source, item_pos, outcome>>
    /\ UNCHANGED <<avars, xvars, tvars>>

\* a call the thread's stack has no room for: the process is aborted
stack_overflow ==
    /\ outcome = "running" /\ pending # << >>
    /\ Head(pending).depth > StackLimit
    /\ outcome' = "stack_overflow"
    /\ UNCHANGED <<source, ast, item_pos, pending, probe_counter, instrumented_operations>>
    /\ UNCHANGED <<avars, xvars, tvars>>

\* after visit_file_mut: generate_instrumented_code and Ok
generate_instrumented_code ==
    /\ outcome = "running" /\ pending = << >> /\ item_pos > Len(ast)
    /\ outcome' = "ok"
    /\ UNCHANGED <<source, ast, item_pos, pending, probe_counter, instrumented_operations>>
    /\ UNCHANGED <<avars, xvars, tvars>>

NextInstr ==
    \/ parse_file
    \/ visit_item_impl_mut
    \/ visit_item_const_mut
    \/ visit_block_mut
    \/ stack_overflow
    \/ generate_instrumented_code

SpecInstr == InitInstr /\ [][NextInstr]_vars

-----------------------------------------------------------------------------
(* extract_storage_variable, applied to a snippet.                         *)

InitExtract ==
    /\ AnalyzerIdle
    /\ InstrumentorIdle
    /\ RuntimeLoaded
    /\ code \in Snippets
    /\ field = ""
    /\ ClassifierIdle

extract ==
    /\ field = ""
    /\ field' = extract_storage_variable(code)
    /\ UNCHANGED <<code, input_expr, expr_ops, analysed>>
    /\ UNCHANGED <<avars, ivars, tvars>>

NextExtract == extract

SpecExtract == InitExtract /\ [][NextExtract]_vars

-----------------------------------------------------------------------------
(* analyze_expr, applied to the expression of a statement on line 1.       *)

InitExpr ==
    /\ AnalyzerIdle
    /\ InstrumentorIdle
    /\ ExtractorIdle
    /\ RuntimeLoaded
    /\ input_expr \in Exprs
    /\ expr_ops = << >>
    /\ analysed = FALSE

analyze ==
    /\ ~analysed
    /\ expr_ops' = analyze_expr(input_expr, 1)
    /\ analysed' = TRUE
    /\ UNCHANGED <<code, field, input_expr>>
    /\ UNCHANGED <<avars, ivars, tvars>>

NextExpr == analyze

SpecExpr == InitExpr /\ [][NextExpr]_vars

-----------------------------------------------------------------------------
(* The runtime: the threads of the instrumented contract call init, the    *)
(* probes and dump_report.  A record call reads the ink counter, takes the *)
(* lock, looks its probe id up in the map, writes the entry and the        *)
(* detections, and drops the lock on return.                               *)

InitTracker ==
    /\ AnalyzerIdle
    /\ InstrumentorIdle
    /\ ExtractorIdle
    /\ ClassifierIdle
    /\ RuntimeLoaded

Logged(op, c, stored, flagged) ==
    [op |-> op, probe_id |-> c.probe_id, ink_before |-> c.ink_before,
     ink_after |-> c.ink_after, stored |-> stored, flagged |-> flagged]

\* InkTracker::init: start_ink is what read_ink_counter returns
init(t) ==
    /\ th[t].pc = "idle" /\ calls < MaxCalls
    /\ can_lock(lock_owner)
    /\ \E start_ink \in InkReadings : tracker' = Reinitialized(tracker, start_ink)
    /\ calls' = calls + 1
    /\ log' = Append(log, Logged("init", NoCall, FALSE, FALSE))
    /\ UNCHANGED <<lock_owner, th, report>>
    /\ UNCHANGED <<avars, ivars, xvars>>

\* probe_after: record_after up to the lock
record_after(t) ==
    /\ th[t].pc = "idle" /\ calls < MaxCalls
    /\ \E probe_id \in TrackedIds, ink_before \in InkBefore, operation_type \in OperationTypes,
          ink_after \in InkReadings :
          th' = [th EXCEPT ![t] =
                    [pc |-> "lock", with_size |-> FALSE, probe_id |-> probe_id,
                     ink_before |-> ink_before, ink_after |-> ink_after, return_size |-> 0,
                     operation_type |-> operation_type, found |-> << >>]]
    /\ calls' = calls + 1
    /\ UNCHANGED <<tracker, lock_owner, log, report>>
    /\ UNCHANGED <<avars, ivars, xvars>>

\* probe_after_with_size: record_after_with_size up to the lock
record_after_with_size(t) ==
    /\ th[t].pc = "idle" /\ calls < MaxCalls
    /\ \E probe_id \in TrackedIds, ink_before \in InkBefore, return_size \in ReturnSizes,
          operation_type \in OperationTypes, ink_after \in InkReadings :
          th' = [th EXCEPT ![t] =
                    [pc |-> "lock", with_size |-> TRUE, probe_id |-> probe_id,
                     ink_before |-> ink_before, ink_after |-> ink_after,
                     return_size |-> return_size, operation_type |-> operation_type,
                     found |-> << >>]]
    /\ calls' = calls + 1
    /\ UNCHANGED <<tracker, lock_owner, log, report>>
    /\ UNCHANGED <<avars, ivars, xvars>>

\* INK_TRACKER.lock() of a record call
lock(t) ==
    /\ th[t].pc = "lock"
    /\ can_lock(lock_owner)
    /\ lock_owner' = t
    /\ th' = [th EXCEPT ![t].pc = "entry"]
    /\ UNCHANGED <<tracker, calls, log, report>>
    /\ UNCHANGED <<avars, ivars, xvars>>

\* if let Some(ref mut t) = *tracker, and the lookup of entry(probe_id);
\* for None the call returns and the guard is dropped
entry(t) ==
    /\ th[t].pc = "entry"
    /\ IF tracker.some
       THEN /\ th' = [th EXCEPT ![t].pc = "store",
                                ![t].found =
                                    IF th[t].probe_id \in DOMAIN tracker.probe_data
                                    THEN <<tracker.probe_data[th[t].probe_id]>>
                                    ELSE << >>]
            /\ UNCHANGED <<lock_owner, log>>
       ELSE /\ th' = [th EXCEPT ![t] = NoCall]
            /\ lock_owner' = 0
            /\ log' = Append(log, Logged("record", th[t], FALSE, FALSE))
    /\ UNCHANGED <<tracker, calls, report>>
    /\ UNCHANGED <<avars, ivars, xvars>>

\* and_modify / or_insert, the dry-nib check, and the return
store(t) ==
    /\ th[t].pc = "store"
    /\ tracker' = Recording(tracker, th[t].found, th[t])
    /\ log' = Append(log, Logged("record", th[t], TRUE,
                                 Checked(<< >>, th[t]) # << >>))
    /\ lock_owner' = 0
    /\ th' = [th EXCEPT ![t] = NoCall]
    /\ UNCHANGED <<calls, report>>
    /\ UNCHANGED <<avars, ivars, xvars>>

dump_report(t) ==
    /\ th[t].pc = "idle" /\ calls < MaxCalls
    /\ can_lock(lock_owner)
    /\ report' = Report(tracker)
    /\ calls' = calls + 1
    /\ log' = Append(log, Logged("dump", NoCall, FALSE, FALSE))
    /\ UNCHANGED <<tracker, lock_owner, th>>
    /\ UNCHANGED <<avars, ivars, xvars>>

NextTracker ==
    \E t \in Threads :
        \/ init(t)
        \/ record_after(t)
        \/ record_after_with_size(t)
        \/ lock(t)
        \/ entry(t)
        \/ store(t)
        \/ dump_report(t)

SpecTracker == InitTracker /\ [][NextTracker]_vars

-----------------------------------------------------------------------------
(* Properties of the analyzer, checked under Spec.                         *)

Recorded == {functions[n] : n \in DOMAIN functions}

RECURSIVE SumNum(_)
SumNum(ops) == IF Len(ops) = 0 THEN 0 ELSE Head(ops).percentage.num + SumNum(Tail(ops))

\* C1: in every recorded function with at least one operation the
\* percentages ink / total_ink * 100 of its operations sum to 100, that is
\* the ink of the operations sums to the denominator every percentage has;
\* and when the total is 0 every percentage is 0.
C1_PercentagesSumTo100 ==
    \A fa \in Recorded :
        Len(fa.operations) > 0 =>
            IF fa.total_ink > 0
            THEN /\ \A i \in 1..Len(fa.operations) :
                        fa.operations[i].percentage.den = fa.total_ink
                 /\ SumNum(fa.operations) = fa.total_ink
            ELSE \A i \in 1..Len(fa.operations) : fa.operations[i].percentage.num = 0

Unranked(seq) ==
    [i \in 1..Len(seq) |->
        [line |-> seq[i].line, ink |-> seq[i].ink, operation |-> seq[i].operation]]

WithInk(seq, v) == SelectSeq(seq, LAMBDA x : x.ink = v)

\* C2: in every recorded function the hotspots are exactly the operations
\* with ink > 1,000,000: every hotspot has such an ink, the hotspots of one
\* ink are the operations of that ink in encounter order, the list descends
\* by ink, and the i-th hotspot has rank i.
C2_HotspotsRanked ==
    \A fa \in Recorded :
        LET h == fa.hotspots
            ops == fa.operations
            inks == {ops[i].ink : i \in 1..Len(ops)} \cup {h[i].ink : i \in 1..Len(h)}
        IN /\ \A i \in 1..Len(h) : h[i].rank = i /\ h[i].ink > 1000000
           /\ \A i, j \in 1..Len(h) : i < j => h[i].ink >= h[j].ink
           /\ \A v \in inks :
                 WithInk(Unranked(h), v) =
                     IF v > 1000000 THEN WithInk(Unranked(ops), v) ELSE << >>

\* a function with hotspots of two inks that its operations do not list in
\* descending order, next to an operation that is no hotspot
C2_Witness ==
    \E fa \in Recorded :
        /\ Len(fa.hotspots) >= 3
        /\ fa.hotspots[1].ink > fa.hotspots[Len(fa.hotspots)].ink
        /\ \E i \in 1..Len(fa.operations) : fa.operations[i].ink <= 1000000
        /\ \E i, j \in 1..Len(fa.operations) :
              /\ i < j
              /\ fa.operations[i].ink > 1000000
              /\ fa.operations[i].ink < fa.operations[j].ink

\* whether stmt is a .get on self.entity
ReadsEntity(stmt, entity) ==
    /\ stmt.k \in {"local", "expr"}
    /\ stmt.e.k = "mcall" /\ stmt.e.segs = <<"get">>
    /\ stmt.e.sub[1] = Self(entity)

\* the line of the file that holds the text src
LineOf(lines, src) == FirstLine({i \in 1..Len(lines) : Trim(lines[i]) = src})

\* C9: a recorded function whose body is three reads of one storage entity
\* has exactly one dry-nib bug record, anchored at the line of the first read
\* (the claim asks, on top of that, for a waste of two read units).
C9_OneRepeatedReadBug ==
    \A i \in 1..Len(file) : \A f \in 1..Len(file[i].fns) :
        LET fn == file[i].fns[f]
        IN (/\ fn.name \in DOMAIN functions
            /\ Len(fn.body) = 3
            /\ \E entity \in {"counter", "balances"} :
                  \A k \in 1..3 : ReadsEntity(fn.body[k], entity))
           => /\ Len(functions[fn.name].dry_nib_bugs) = 1
              /\ functions[fn.name].dry_nib_bugs[1].line
                     = LineOf(SourceLines(file), fn.body[1].src)

\* the writes of a function whose text embeds a lookup call
EmbeddingWrites(fa) ==
    {i \in 1..Len(fa.operations) :
        /\ fa.operations[i].category = "storage_write"
        /\ Contains(Replace(fa.operations[i].code, " ", ""), ".get(")}

\* C10: every storage write that embeds a lookup call yields exactly one
\* optimization of the redundant-read-in-write rule: a recorded function has
\* as many optimizations that are no caching suggestion as it has such writes.
C10_RedundantReadInWrite ==
    \A fa \in Recorded :
        Cardinality({o \in fa.optimizations : ~StartsWith(o.id, "cache_")})
            = Cardinality(EmbeddingWrites(fa))

-----------------------------------------------------------------------------
(* Properties of the instrumentor, checked under SpecInstr.                *)

Instrumentable(stmt) ==
    /\ stmt.k \in {"local", "expr", "tail"}
    /\ \/ is_storage_operation(ClassifiedText(stmt))
       \/ is_expensive_operation(ClassifiedText(stmt))
    /\ classify_operation(ClassifiedText(stmt)) # ""

\* the statements of the source that are instrumented, one per occurrence
InstrumentableStatements(items) ==
    UNION {UNION {{<<i, f, k>> : k \in {j \in 1..Len(items[i].fns[f].body) :
                                           Instrumentable(items[i].fns[f].body[j])}} :
                  f \in 1..Len(items[i].fns)} :
           i \in 1..Len(items)}

\* one #[external] impl whose one method is a storage read and a storage write
ReadThenWrite(items) ==
    /\ Len(items) = 1 /\ items[1].k = "impl" /\ HasAttr(items[1], "external")
    /\ Len(items[1].fns) = 1 /\ Len(items[1].fns[1].body) = 2
    /\ classify_operation(ClassifiedText(items[1].fns[1].body[1])) = "storage_read"
    /\ classify_operation(ClassifiedText(items[1].fns[1].body[2])) = "storage_write"

ProbeIds == [i \in 1..Len(instrumented_operations) |-> instrumented_operations[i].probe_id]

\* C3: every instrumented statement of the source consumes one probe id, so
\* there are never more records than such statements; and instrument on one
\* #[external] method that is a storage read and a storage write never holds
\* more than 2 records and returns with the probe ids 0 and 1.
C3_OneProbeIdPerStatement ==
    /\ Len(instrumented_operations) <= Cardinality(InstrumentableStatements(source.items))
    /\ ReadThenWrite(source.items) =>
          /\ Len(instrumented_operations) <= 2
          /\ outcome # "stack_overflow"
          /\ outcome = "ok" => ProbeIds = <<0, 1>>

IsOn(stmt) == \E i \in 1..Len(stmt.attrs) : stmt.attrs[i] = CfgOn
IsOff(stmt) == \E i \in 1..Len(stmt.attrs) : stmt.attrs[i] = CfgOff

\* stmt without the attributes inject_probe writes
Bare(stmt) ==
    [k |-> stmt.k, attrs |-> SelectSeq(stmt.attrs, LAMBDA a : a \notin {CfgOn, CfgOff}),
     pat |-> stmt.pat, e |-> stmt.e, src |-> stmt.src]

\* the statements of a block that are compiled with the flag disabled,
\* enabled
FlagOff(stmts) ==
    LET kept == SelectSeq(stmts, LAMBDA x : ~IsOn(x))
    IN [i \in 1..Len(kept) |-> Bare(kept[i])]

FlagOn(stmts) == SelectSeq(stmts, LAMBDA x : ~IsOff(x))

\* the blocks wrapped into a let __result, at every depth: each holds, with
\* the flag disabled, the one statement its block keeps for that build
RECURSIVE NestedFlagOff(_)
NestedFlagOff(stmts) ==
    \A k \in 1..Len(stmts) :
        (stmts[k].pat = "__result" /\ stmts[k].e.k = "block") =>
            /\ k < Len(stmts)
            /\ FlagOff(stmts[k].e.sub) = FlagOff(<<stmts[k + 1]>>)
            /\ NestedFlagOff(stmts[k].e.sub)

\* C4: with the flag disabled, the statements of every rewritten block are
\* the original statements, in the original order, each exactly once: every
\* method body of the rewritten file against the source's, and every block
\* the rewriting nests against the statement it wraps.
C4_FlagOffIsOriginal ==
    \A i \in 1..Len(ast) : \A f \in 1..Len(ast[i].fns) :
        /\ FlagOff(ast[i].fns[f].body) = source.items[i].fns[f].body
        /\ NestedFlagOff(ast[i].fns[f].body)

\* a body in which a read was wrapped and a further statement got its probes
C4_Witness ==
    \E i \in 1..Len(ast) : \E f \in 1..Len(ast[i].fns) :
        LET body == ast[i].fns[f].body
        IN /\ \E k \in 1..Len(body) : body[k].pat = "__result" /\ IsOn(body[k])
           /\ \E k \in 1..Len(body) : IsOff(body[k])
           /\ \E k \in 1..Len(body) : body[k].k = "expr" /\ body[k].src # "" /\ ~IsOff(body[k])
           /\ Len(body) >= 7

\* the names a block's let statements bind for the statements after them
Bound(stmts) == {stmts[k].pat : k \in {j \in 1..Len(stmts) : stmts[j].k = "local"}}

\* how often the statement s is executed by a block compiled with the flag
\* enabled
RECURSIVE Executions(_, _)
Executions(stmts, s) ==
    IF Len(stmts) = 0 THEN 0
    ELSE (IF IsOff(Head(stmts)) THEN 0
          ELSE (IF Bare(Head(stmts)) = s THEN 1 ELSE 0)
               + (IF Head(stmts).e.k = "block" THEN Executions(Head(stmts).e.sub, s) ELSE 0))
         + Executions(Tail(stmts), s)

\* C5: with the flag enabled every method body executes each original
\* statement as often as the original body does, and every name an original
\* let binds is bound in the body itself, for the statements that follow.
C5_FlagOnPreservesScope ==
    \A i \in 1..Len(ast) : \A f \in 1..Len(ast[i].fns) :
        LET original == source.items[i].fns[f].body
            body == ast[i].fns[f].body
        IN /\ \A k \in 1..Len(original) :
                 Executions(body, original[k]) = Executions(original, original[k])
           /\ Bound(original) \subseteq Bound(FlagOn(body))

\* C6: instrument returns, Ok whenever the source parses: it never ends in
\* the abort of a stack overflow, and it returns Err only for a source that
\* does not parse.
C6_InstrumentReturnsOk ==
    /\ outcome # "stack_overflow"
    /\ outcome = "err" => ~source.parses

\* C7: no statement of an impl block without #[external] is instrumented:
\* such a block stays as the source has it, and a source without an
\* #[external] block leaves no record.
C7_OnlyExternalInstrumented ==
    /\ \A i \in 1..Len(ast) : ~HasAttr(ast[i], "external") => ast[i] = source.items[i]
    /\ (\A i \in 1..Len(source.items) : ~HasAttr(source.items[i], "external"))
          => instrumented_operations = << >>

\* C8: the i-th record has probe id i - 1 (so the ids are unique, increasing
\* and sequential from 0) and probe_counter is the number of ids handed out.
C8_ProbeIdsSequential ==
    /\ \A i \in 1..Len(instrumented_operations) :
          instrumented_operations[i].probe_id = i - 1
    /\ probe_counter = Len(instrumented_operations)

\* an instrumentor that has handed out three ids in two calls of visit_block_mut
C8_Witness ==
    /\ Len(instrumented_operations) >= 3
    /\ probe_counter >= 3
    /\ \E i \in 1..Len(instrumented_operations) :
          instrumented_operations[i].operation_type = "storage_write"

-----------------------------------------------------------------------------
(* Properties of analyze_contract's result, checked under Spec.            *)

ImplMethods(node) == {node.fns[j] : j \in 1..Len(node.fns)}

FileMethods(f) == UNION {ImplMethods(f[i]) : i \in 1..Len(f)}

Marked(node) == \E a \in 1..Len(node.attrs) : node.attrs[a] \in {"external", "public"}

\* C11: a function named new, load, load_mut, entrypoint, user_entrypoint,
\* mark_used or required_slots, or with a name that starts with __stylus_,
\* is never a key of the functions map, whatever its visibility, the markers
\* of its impl block and the target filter are.
C11_LifecycleNamesExcluded ==
    \A n \in DOMAIN functions :
        /\ n \notin {"new", "load", "load_mut", "entrypoint", "user_entrypoint",
                     "mark_used", "required_slots"}
        /\ ~StartsWith(n, "__stylus_")

\* analyze_contract has returned for a marked impl block with a public new
\* that the target filter names
C11_Witness ==
    /\ result = "err"
    /\ target_function = "new"
    /\ \E i \in 1..Len(file) :
          /\ Marked(file[i])
          /\ \E m \in ImplMethods(file[i]) : m.name = "new" /\ m.public

\* a file of impl blocks whose functions are all private
OnlyPrivateHelpers(f) ==
    /\ \A i \in 1..Len(f) : f[i].k = "impl"
    /\ FileMethods(f) # {}
    /\ \A m \in FileMethods(f) : ~m.public

\* C12: for a file that contains only private helper functions
\* analyze_contract returns the no-entry-points error, never Ok.
C12_PrivateHelpersFail ==
    (result # "running" /\ OnlyPrivateHelpers(file)) => result = "err"

\* the number of constants of f named SELECTOR_* or *_SELECTOR
SelectorConstants(f) ==
    Cardinality({i \in 1..Len(f) :
                    /\ f[i].k = "const"
                    /\ Len(f[i].name) >= 9
                    /\ \/ SubSeq(f[i].name, 1, 9) = "SELECTOR_"
                       \/ SubSeq(f[i].name, Len(f[i].name) - 8, Len(f[i].name)) = "_SELECTOR"})

Numeral(n) == <<"0", "1", "2", "3">>[n + 1]

\* C13: analyze_contract never returns Ok with an empty functions map; when
\* no function was recorded by the end of the traversal it returns an error
\* whose message carries the file label and the number of selector-like
\* constants of the file.
C13_EmptyMapIsError ==
    /\ result = "ok" => DOMAIN functions # {}
    /\ (result # "running" /\ DOMAIN functions = {}) =>
          /\ result = "err"
          /\ Contains(error, "File: " \o file_path_rel \o "\n")
          /\ Contains(error, "Selectors found: " \o Numeral(SelectorConstants(file)) \o " ")

\* the error for a target that names no eligible function of a file with an
\* eligible function and a selector-like constant
C13_Witness ==
    /\ result = "err"
    /\ target_function = "new"
    /\ SelectorConstants(file) = 1
    /\ \E m \in FileMethods(file) : m.name = "transfer"

\* C18: with target_function = Some(name) every entry of the functions map
\* has that name as its key and as its name field.
C18_OnlyTargetReported ==
    target_function # "" =>
        \A n \in DOMAIN functions : n = target_function /\ functions[n].name = target_function

\* Ok for the target transfer on a file whose marked impl block holds
\* approve as well
C18_Witness ==
    /\ result = "ok"
    /\ target_function = "transfer"
    /\ "transfer" \in DOMAIN functions
    /\ \E m \in FileMethods(file) : m.name = "approve"

OfCategory(ops, c) == SelectSeq(ops, LAMBDA op : op.category = c)

RECURSIVE InkOf(_)
InkOf(ops) == IF Len(ops) = 0 THEN 0 ELSE Head(ops).ink + InkOf(Tail(ops))

\* C19: in every recorded function, for every category present, count is
\* the number of operations of the category, total_ink the sum of their
\* ink, avg_per_op the integer quotient total_ink / count, and percentage
\* the category's total_ink over the function's reported total_ink.
C19_CategoryStats ==
    \A fa \in Recorded :
        /\ DOMAIN fa.categories = {fa.operations[i].category : i \in 1..Len(fa.operations)}
        /\ \A c \in DOMAIN fa.categories :
              LET stats == fa.categories[c]
                  ops == OfCategory(fa.operations, c)
              IN /\ stats.count = Len(ops)
                 /\ stats.total_ink = InkOf(ops)
                 /\ stats.avg_per_op = InkOf(ops) \div Len(ops)
                 /\ IF fa.total_ink > 0
                    THEN stats.percentage = [num |-> InkOf(ops), den |-> fa.total_ink]
                    ELSE stats.percentage.num = 0

\* C20: when the file holds at least two selector-like constants, before or
\* behind the impl block, every impl block that was visited is analysed: its
\* functions other than the lifecycle and dispatch helpers are recorded.
C20_SelectorsAnywhere ==
    (SelectorConstants(file) >= 2 /\ target_function = "") =>
        \A i \in 1..(pos - 1) :
            \A m \in ImplMethods(file[i]) :
                (m.name \notin LifecycleNames /\ ~StartsWith(m.name, "__")
                 /\ m.name \notin {"route", "dispatch"})
                    => m.name \in DOMAIN functions

-----------------------------------------------------------------------------
(* Properties of the runtime, checked under SpecTracker.                   *)

\* the index of the last init of the log, 0 when it holds none
LastInit ==
    LET inits == {i \in 1..Len(log) : log[i].op = "init"}
    IN IF inits = {} THEN 0 ELSE CHOOSE i \in inits : \A j \in inits : j <= i

\* the record calls completed since the last init
RecordsSinceInit == {i \in (LastInit + 1)..Len(log) : log[i].op = "record"}

CountOf(id) ==
    IF id \in DOMAIN tracker.probe_data THEN tracker.probe_data[id].count ELSE 0

\* C14: whatever the interleaving of the record_after and
\* record_after_with_size calls of the threads after an init is, the count
\* of every probe id is the number of record calls completed for the id,
\* and the detections are as many as the calls the dry-nib check flagged.
C14_NoLostUpdate ==
    tracker.some =>
        /\ \A id \in TrackedIds :
              CountOf(id) = Cardinality({i \in RecordsSinceInit : log[i].probe_id = id})
        /\ Len(tracker.dry_nib_detections) =
              Cardinality({i \in RecordsSinceInit : log[i].flagged})

\* after an init, one thread waits for the lock another thread holds to
\* write the entry of the same probe id
C14_Witness ==
    /\ tracker.some
    /\ \E t, u \in Threads :
          /\ th[t].pc = "lock"
          /\ th[u].pc = "store" /\ lock_owner = u
          /\ th[t].probe_id = th[u].probe_id

\* C15: a step of init leaves the probe map and the detections empty, and
\* no other step resets the tracker: it stays Some, every entry of the probe
\* map stays with a count that is not smaller, and the detections stay a
\* prefix of what they become.
C15_InitOverwrites ==
    [][IF Len(log') > Len(log) /\ log'[Len(log')].op = "init"
       THEN /\ tracker'.some
            /\ DOMAIN tracker'.probe_data = {}
            /\ tracker'.dry_nib_detections = << >>
       ELSE /\ tracker.some => tracker'.some
            /\ DOMAIN tracker.probe_data \subseteq DOMAIN tracker'.probe_data
            /\ \A id \in DOMAIN tracker.probe_data :
                  tracker'.probe_data[id].count >= tracker.probe_data[id].count
            /\ Len(tracker'.dry_nib_detections) >= Len(tracker.dry_nib_detections)
            /\ SubSeq(tracker'.dry_nib_detections, 1, Len(tracker.dry_nib_detections))
                  = tracker.dry_nib_detections]_vars

\* an init that came after a record call that stored a flagged measurement
C15_Witness ==
    /\ Len(log) >= 2
    /\ log[Len(log)].op = "init"
    /\ log[Len(log) - 1].op = "record"
    /\ log[Len(log) - 1].stored /\ log[Len(log) - 1].flagged
    /\ DOMAIN tracker.probe_data = {}
    /\ tracker.dry_nib_detections = << >>

\* C16: a record call made when init was never called creates the tracker
\* and stores its measurement, and a dump_report after it shows it.
C16_LazilyInitialized ==
    \A i \in 1..Len(log) :
        (LastInit = 0 /\ log[i].op = "record") =>
            /\ tracker.some
            /\ log[i].probe_id \in DOMAIN tracker.probe_data
            /\ (\E j \in (i + 1)..Len(log) : log[j].op = "dump") =>
                  (~report.empty /\ log[i].probe_id \in DOMAIN report.probe_data)

-----------------------------------------------------------------------------
(* Properties of extract_storage_variable, checked under SpecExtract.      *)

\* the positions of text where a segment self.<name>. begins, and the
\* position of the dot that ends the segment beginning at i
SegmentEnd(text, i) ==
    LET ends == {j \in (i + 6)..Len(text) :
                    /\ SubSeq(text, j, j) = "."
                    /\ SubSeq(text, i + 5, i + 5) \in IdentStart
                    /\ \A k \in (i + 5)..(j - 1) : SubSeq(text, k, k) \in IdentChar}
    IN IF ends = {} THEN 0 ELSE CHOOSE j \in ends : TRUE

Segments(text) ==
    {i \in 1..(Len(text) - 4) : SubSeq(text, i, i + 4) = "self." /\ SegmentEnd(text, i) # 0}

FirstSegmentName(text) ==
    LET i == CHOOSE a \in Segments(text) : \A b \in Segments(text) : a <= b
    IN SubSeq(text, i + 5, SegmentEnd(text, i) - 1)

Blocklisted(text, name) ==
    name \in {"mut", "ref", "as", "let", "where", "self", "get", "insert"}

Settled(text, out) ==
    /\ ~Blocklisted(text, out)
    /\ Segments(text) = {} => out = "unknown"
    /\ Segments(text) # {} =>
          (Blocklisted(text, FirstSegmentName(text)) => out = "unknown")

\* C17: extract_storage_variable never returns one of mut, ref, as, let,
\* where, self, get, insert; it returns "unknown" when the name of the first
\* segment self.<name>. of the snippet, spaces removed, is one of them, and
\* when the snippet holds no such segment.
C17_NeverReservedWord ==
    field # "" => Settled(Replace(code, " ", ""), field)

\* "unknown" for a snippet whose first segment is self.get.
C17_Witness ==
    /\ field = "unknown"
    /\ code = "self . get . insert (k , v)  "

-----------------------------------------------------------------------------
(* Properties of analyze_expr, checked under SpecExpr.                     *)

OpsOfCategory(c) == {i \in 1..Len(expr_ops) : expr_ops[i].category = c}

\* C21: the receiver of a method call is not visited when it is a method
\* call itself: for a chained call no operation carries the text of the
\* receiver as its code, so that the receiver chain is counted once, by the
\* operations of the whole call.
C21_ChainedReceiverCountedOnce ==
    (analysed /\ input_expr.k = "mcall" /\ input_expr.sub[1].k = "mcall") =>
        \A i \in 1..Len(expr_ops) : expr_ops[i].code # ToStr(input_expr.sub[1])

\* C24: an expression that does not mention self, such as a lookup call on
\* a local variable, yields no operation of category storage_read.
C24_ReadsAreSelfRooted ==
    (analysed /\ ~Contains(ToStr(input_expr), "self")) => OpsOfCategory("storage_read") = {}

\* C25: a compound assignment += or -= to a field of self yields a
\* storage_write operation, and one to a plain local variable yields none.
C25_CompoundAssignment ==
    (analysed /\ input_expr.k = "bin" /\ input_expr.segs[1] \in {"+=", "-="}) =>
        LET target == input_expr.sub[1]
        IN /\ (target.k = "field" /\ target.sub[1] = Var("self"))
                => OpsOfCategory("storage_write") # {}
           /\ target.k = "path" => OpsOfCategory("storage_write") = {}

\* the flat cost of the host-context query a snippet makes
HostContextCost(snippet) ==
    IF Contains(snippet, "msg::sender") THEN 300000
    ELSE IF Contains(snippet, "msg::value") THEN 350000
    ELSE IF Contains(snippet, "block::") THEN 250000
    ELSE 200000

\* C26: the host-context costs ascend from identity over value and block
\* metadata to the default, and every evm_context operation the classifier
\* builds has the cost of the query its snippet makes.
C26_HostContextCosts ==
    /\ estimate_ink_cost("msg::sender", "evm_context")
          < estimate_ink_cost("msg::value", "evm_context")
    /\ estimate_ink_cost("msg::value", "evm_context")
          < estimate_ink_cost("block::number", "evm_context")
    /\ estimate_ink_cost("block::number", "evm_context")
          < estimate_ink_cost("gas_left", "evm_context")
    /\ \A i \in OpsOfCategory("evm_context") :
          expr_ops[i].ink = HostContextCost(expr_ops[i].code)

-----------------------------------------------------------------------------
(* The probe entries of the runtime, checked under SpecTracker.            *)

\* the record calls since the last init that stored a measurement for id
HitsOf(id) == {i \in RecordsSinceInit : log[i].probe_id = id /\ log[i].stored}

Consumption(before, after) == IF before >= after THEN before - after ELSE 0

\* C29: the entry of a probe id holds the ink_before and the ink_after of
\* one measurement: the consumption dump_report shows for it is the
\* consumption of one of the record calls made for the id since the last
\* init, and its count is the number of these calls.
C29_ProbeDataSelfConsistent ==
    tracker.some =>
        \A id \in DOMAIN tracker.probe_data :
            LET data == tracker.probe_data[id]
            IN /\ data.count = Cardinality(HitsOf(id))
               /\ \E i \in HitsOf(id) :
                     Consumption(data.ink_before, data.ink_after)
                         = Consumption(log[i].ink_before, log[i].ink_after)

-----------------------------------------------------------------------------
(* Properties of the detectors and of the functions map, checked under     *)
(* Spec.                                                                   *)

\* the statements of body that look entity up
ReadStatements(body, entity) ==
    {k \in 1..Len(body) : Contains(ToStr(body[k].e), "self . " \o entity \o " . get (")}

\* the methods of the file, each with the place it is declared at
Declared(f) == UNION {{<<i, j>> : j \in 1..Len(f[i].fns)} : i \in 1..Len(f)}

DeclaredOnce(f, name) ==
    Cardinality({p \in Declared(f) : f[p[1]].fns[p[2]].name = name}) = 1

CachingOf(fa, entity) == {o \in fa.optimizations : o.id = "cache_" \o entity}

\* C22: a recorded function has a caching optimization for an entity if
\* and only if its body reads the entity more than once; there is at most
\* one per entity, its estimated_savings_ink is 13,200,000 for every read
\* after the first, and its confidence is "high".
C22_CachingIffRepeatedRead ==
    \A p \in Declared(file) :
        LET fn == file[p[1]].fns[p[2]]
        IN (fn.name \in DOMAIN functions /\ DeclaredOnce(file, fn.name)) =>
              \A entity \in {"counter", "balances"} :
                  LET reads == Cardinality(ReadStatements(fn.body, entity))
                      opts == CachingOf(functions[fn.name], entity)
                  IN /\ (opts # {}) <=> (reads > 1)
                     /\ Cardinality(opts) <= 1
                     /\ \A o \in opts :
                           /\ o.estimated_savings_ink = 13200000 * (reads - 1)
                           /\ o.confidence = "high"

NestedReads(fa) ==
    {i \in 1..Len(fa.operations) :
        /\ fa.operations[i].category = "storage_read"
        /\ CountMatches(fa.operations[i].code, ".get(") >= 2}

ReadLines(fa, entity) ==
    {fa.operations[i].line :
        i \in {j \in 1..Len(fa.operations) :
                  /\ fa.operations[j].category = "storage_read"
                  /\ fa.operations[j].entity = entity}}

\* C28: no optimization is keyed on the entity "unknown": every
\* optimization is the caching of an entity other than "unknown", anchored
\* at the first line that reads that entity, and its savings count the lines
\* that read that entity and no other line.
C28_UnknownNotAggregated ==
    \A fa \in Recorded :
        \A o \in fa.optimizations :
            /\ o.id # "cache_unknown"
            /\ \E entity \in {"counter", "balances"} :
                  /\ o.id = "cache_" \o entity
                  /\ o.line \in ReadLines(fa, entity)
                  /\ \A l \in ReadLines(fa, entity) : o.line <= l
                  /\ o.estimated_savings_ink
                        = 13200000 * (Cardinality(ReadLines(fa, entity)) - 1)

\* a function with more than two storage reads of the entity "unknown",
\* next to the reads its optimization is about
C28_Witness ==
    \E fa \in Recorded :
        /\ fa.optimizations # {}
        /\ Cardinality({i \in 1..Len(fa.operations) :
                           /\ fa.operations[i].category = "storage_read"
                           /\ fa.operations[i].entity = "unknown"}) > 2

\* the names analyze_function is not called for, or returns at once for
Helper(name) ==
    \/ name \in {"new", "load", "load_mut", "entrypoint", "user_entrypoint", "mark_used",
                 "required_slots", "route", "dispatch"}
    \/ SubSeq(name, 1, 2) = "__"

AllMarked(f) == f # << >> /\ \A i \in 1..Len(f) : f[i].k = "impl" /\ Marked(f[i])

\* the place of the last declaration of name
LastDeclared(f, name) ==
    CHOOSE p \in Declared(f) :
        /\ f[p[1]].fns[p[2]].name = name
        /\ \A q \in Declared(f) :
              f[q[1]].fns[q[2]].name = name =>
                  (q[1] < p[1] \/ (q[1] = p[1] /\ q[2] <= p[2]))

\* C30: for a file of marked impl blocks, analysed without a target, the
\* functions map has one entry for every distinct eligible name and no
\* other, and the entry of a name holds the analysis of the function of
\* that name that is declared last.
C30_LastDeclarationWins ==
    (result = "ok" /\ target_function = "" /\ AllMarked(file)) =>
        /\ DOMAIN functions =
              {file[p[1]].fns[p[2]].name : p \in Declared(file)}
                 \ {n \in {file[p[1]].fns[p[2]].name : p \in Declared(file)} : Helper(n)}
        /\ \A n \in DOMAIN functions :
              LET p == LastDeclared(file, n)
              IN functions[n] =
                    FunctionAnalysisOf(SourceLines(file), n, file[p[1]].fns[p[2]].body,
                                       find_function_lines(SourceLines(file))[n])

\* Ok for two marked impl blocks that declare transfer with different bodies
C30_Witness ==
    /\ result = "ok" /\ target_function = "" /\ AllMarked(file)
    /\ Len(file) = 2
    /\ \E m \in ImplMethods(file[1]) : \E n \in ImplMethods(file[2]) :
          m.name = "transfer" /\ n.name = "transfer" /\ m.body # n.body
    /\ DOMAIN functions = {"transfer", "approve"}

-----------------------------------------------------------------------------
(* The statements the instrumentor leaves alone, checked under SpecInstr.  *)

\* a statement whose expression matches one of the two predicates
Matching(stmt) ==
    /\ stmt.k \in {"local", "expr", "tail"}
    /\ \/ is_storage_operation(ClassifiedText(stmt))
       \/ is_expensive_operation(ClassifiedText(stmt))

MatchingStatements(items) ==
    UNION {{<<d, k>> : k \in {j \in 1..Len(items[d[1]].fns[d[2]].body) :
                                  Matching(items[d[1]].fns[d[2]].body[j])}} :
           d \in Declared(items)}

\* C23: when instrument returns Ok, every function of the source with a
\* statement that matches the storage-operation or the expensive-operation
\* predicate has its body rewritten, and at least one probe id was consumed
\* for every such statement.
C23_MatchingStatementsProbed ==
    outcome = "ok" =>
        /\ \A p \in MatchingStatements(source.items) :
              ast[p[1][1]].fns[p[1][2]].body # source.items[p[1][1]].fns[p[1][2]].body
        /\ Len(instrumented_operations) >= Cardinality(MatchingStatements(source.items))

=============================================================================
